---- MODULE Spec2Model ----
(***************************************************************************)
(* Model of WH65_RX_V1.ino: the CC1101 receive poll (cc1101CheckRX), the   *)
(* Fine Offset WH65 decoder (crc8, decodeWH65), the PMS7003 frame          *)
(* assembler (pmsRead) and the two stored readings (wh65, pms).            *)
(*                                                                         *)
(* Bytes are integers 0..255.  C arrays are sequences; At(buf, i) is the   *)
(* C expression buf[i].  The float fields of WH65Data are kept in fixed    *)
(* point: tempC in tenths of a degree, windSpeed and windGust in           *)
(* hundredths of km/h, rainMM in tenths of a millimetre.                   *)
(***************************************************************************)
EXTENDS Integers, Sequences, FiniteSets, TLC

VARIABLES
    pc,        \* position of the program: "setup", then loop(): "checkRX" / "pmsRead"
    cfgFreq,   \* cfg.freq
    now,       \* millis()
    wh65,      \* static WH65Data wh65
    pms,       \* static PMSData pms
    pmsBuf,    \* static uint8_t pmsBuf[32]
    pmsIdx,    \* static uint8_t pmsIdx
    uart,      \* bytes waiting in pmsSerial (available()/read())
    wire,      \* bytes the PMS7003 has still to send
    trace,     \* what the most recent handler call did, in order
    rxBuf,     \* the local buf[0..rxBytes-1] of the most recent cc1101CheckRX
    lastGood,  \* history: the most recent buffer handed to decodeWH65 that was
               \* at least 17 bytes long with a matching CRC-8
    pmsLog,    \* history: the particulate readings stored so far (no timestamps)
    sent       \* history: every byte that has arrived on the UART so far

vars == <<pc, cfgFreq, now, wh65, pms, pmsBuf, pmsIdx, uart, wire, trace,
          rxBuf, lastGood, pmsLog, sent>>

Byte == 0..255

At(buf, i) == buf[i + 1]

Ev(op, arg) == [op |-> op, arg |-> arg]

HasOp(tr, op) == \E i \in 1..Len(tr) : tr[i].op = op

RECURSIVE SumRange(_, _, _)
SumRange(s, lo, hi) ==
    IF lo > hi THEN 0
    ELSE IF lo = hi THEN s[lo]
    ELSE LET mid == (lo + hi) \div 2
         IN  SumRange(s, lo, mid) + SumRange(s, mid + 1, hi)

SeqSum(s) == SumRange(s, 1, Len(s))

\* ------------------------------------------------------------------------
\* Bit operations on uint8_t
\* ------------------------------------------------------------------------
RECURSIVE BitXor(_, _, _)
BitXor(a, b, n) ==
    IF n = 0 THEN 0
    ELSE (((a % 2) + (b % 2)) % 2) + 2 * BitXor(a \div 2, b \div 2, n - 1)

RECURSIVE BitAnd(_, _, _)
BitAnd(a, b, n) ==
    IF n = 0 THEN 0
    ELSE ((a % 2) * (b % 2)) + 2 * BitAnd(a \div 2, b \div 2, n - 1)

\* a ^ b tabulated over uint8_t (entry [a + 1][b + 1])
XorTable == <<>> \o [a \in 1..256 |-> <<>> \o [b \in 1..256 |-> BitXor(a - 1, b - 1, 8)]]

Xor8(a, b) == XorTable[a + 1][b + 1]

And8(a, b) == BitAnd(a, b, 8)

\* ------------------------------------------------------------------------
\* crc8: polynomial 0x31, init 0x00
\* ------------------------------------------------------------------------
CrcPoly == 49

\* the inner loop: for (b = 0; b < 8; b++) { if (crc & 0x80) ... }
RECURSIVE Crc8Shift(_, _)
Crc8Shift(crc, b) ==
    IF b = 8 THEN crc
    ELSE IF And8(crc, 128) # 0
         THEN Crc8Shift(BitXor((crc * 2) % 256, CrcPoly, 8), b + 1)
         ELSE Crc8Shift((crc * 2) % 256, b + 1)

\* the eight shifts of one byte, tabulated over the 256 values of crc
Crc8ShiftTable == <<>> \o [c \in 1..256 |-> Crc8Shift(c - 1, 0)]

\* the outer loop over data[lo..hi], in order: crc ^= data[i]; eight shifts
\* (the index range is halved to keep the evaluation shallow; crc is a uint8_t)
RECURSIVE Crc8Loop(_, _, _, _)
Crc8Loop(data, lo, hi, crc) ==
    IF lo > hi THEN crc
    ELSE IF lo = hi THEN Crc8ShiftTable[Xor8(crc, At(data, lo)) + 1]
    ELSE LET mid == (lo + hi) \div 2
             c == Crc8Loop(data, lo, mid, crc)
         IN  IF c \in Byte THEN Crc8Loop(data, mid + 1, hi, c) ELSE c

\* crc8 with its result inverted
crc8_XorOut(data, len) == Xor8(Crc8Loop(data, 0, len - 1, 0), 255)

\* crc8 starting from 0xFF instead of 0x00
crc8_InitFF(data, len) == Crc8Loop(data, 0, len - 1, 255)

crc8(data, len) == Crc8Loop(data, 0, len - 1, 0)

\* ------------------------------------------------------------------------
\* decodeWH65
\* ------------------------------------------------------------------------
MinFrameLen == 17

LuxFrameLen == 20

FamilyWH65 == 36

TempOffset == 400

MaxWindDir == 360

\* the state of `static WH65Data wh65` before any decode (zero-initialised);
\* the uint32_t lux is held as <<upper 16 bits, lower 16 bits>>
WH65Zero ==
    [tempC |-> 0, humidity |-> 0, windDir |-> 0, windSpeed |-> 0,
     windGust |-> 0, rainMM |-> 0, uvIndex |-> 0, lux |-> <<0, 0>>, battery |-> 0,
     valid |-> FALSE, lastUpdate |-> 0]

\* tempRaw with all eight bits of byte 5
TempRaw_NoMask(buf) == At(buf, 5) * 256 + At(buf, 6)

\* tempRaw without the high nibble from byte 5
TempRaw_LowByteOnly(buf) == At(buf, 6)

\* int16_t tempRaw = ((buf[5] & 0x0F) << 8) | buf[6]
TempRaw(buf) == And8(At(buf, 5), 15) * 256 + At(buf, 6)

\* windDir without the reset of values above 360
WindDir_NoClamp(buf) == At(buf, 8) * 256 + At(buf, 9)

\* wh65.windDir = (buf[8] << 8) | buf[9]; if (wh65.windDir > 360) wh65.windDir = 0
WindDir(buf) ==
    LET d == At(buf, 8) * 256 + At(buf, 9)
    IN  IF d > MaxWindDir THEN 0 ELSE d

\* lux read only from buffers longer than 20 bytes
Lux_NeedsTwentyOne(buf, len) ==
    IF len > LuxFrameLen
    THEN <<At(buf, 16) * 256 + At(buf, 17), At(buf, 18) * 256 + At(buf, 19)>>
    ELSE <<0, 0>>

\* lux: (buf[16] << 24) | (buf[17] << 16) | (buf[18] << 8) | buf[19] when
\* len >= 20, else 0; as <<upper 16 bits, lower 16 bits>>
Lux(buf, len) ==
    IF len >= LuxFrameLen
    THEN <<At(buf, 16) * 256 + At(buf, 17), At(buf, 18) * 256 + At(buf, 19)>>
    ELSE <<0, 0>>

\* the assignments with the battery flag taken from any bit of byte 4
WH65Store_BatteryAnyBit(w, buf, len, t) ==
    [w EXCEPT
       !.battery    = IF At(buf, 4) # 0 THEN 0 ELSE 1,
       !.tempC      = TempRaw(buf) - TempOffset,
       !.humidity   = At(buf, 7),
       !.windDir    = WindDir(buf),
       !.windSpeed  = At(buf, 10) * 36,
       !.windGust   = At(buf, 11) * 36,
       !.rainMM     = At(buf, 12) * 65536 + At(buf, 13) * 256 + At(buf, 14),
       !.uvIndex    = At(buf, 15),
       !.lux        = Lux(buf, len),
       !.valid      = TRUE,
       !.lastUpdate = t]

\* the assignments without the else branch that zeroes lux
WH65Store_KeepLuxWhenShort(w, buf, len, t) ==
    [w EXCEPT
       !.battery    = IF And8(At(buf, 4), 4) # 0 THEN 0 ELSE 1,
       !.tempC      = TempRaw(buf) - TempOffset,
       !.humidity   = At(buf, 7),
       !.windDir    = WindDir(buf),
       !.windSpeed  = At(buf, 10) * 36,
       !.windGust   = At(buf, 11) * 36,
       !.rainMM     = At(buf, 12) * 65536 + At(buf, 13) * 256 + At(buf, 14),
       !.uvIndex    = At(buf, 15),
       !.lux        = IF len >= LuxFrameLen THEN Lux(buf, len) ELSE w.lux,
       !.valid      = TRUE,
       !.lastUpdate = t]

\* the assignments of decodeWH65 after the CRC test, at millis() = t
WH65Store(w, buf, len, t) ==
    [w EXCEPT
       !.battery    = IF And8(At(buf, 4), 4) # 0 THEN 0 ELSE 1,
       !.tempC      = TempRaw(buf) - TempOffset,
       !.humidity   = At(buf, 7),
       !.windDir    = WindDir(buf),
       !.windSpeed  = At(buf, 10) * 36,
       !.windGust   = At(buf, 11) * 36,
       !.rainMM     = At(buf, 12) * 65536 + At(buf, 13) * 256 + At(buf, 14),
       !.uvIndex    = At(buf, 15),
       !.lux        = Lux(buf, len),
       !.valid      = TRUE,
       !.lastUpdate = t]

\* decodeWH65 with the battery flag stored before the checksum is tested
decodeWH65_StoreBeforeCrc(buf, len, w, t) ==
    IF len < MinFrameLen
    THEN [ret |-> FALSE, wh65 |-> w, steps |-> <<>>]
    ELSE LET calcCrc == crc8(buf, len - 1)
             early == [w EXCEPT !.battery = IF And8(At(buf, 4), 4) # 0 THEN 0 ELSE 1]
         IN  IF calcCrc # At(buf, len - 1)
             THEN [ret |-> FALSE, wh65 |-> early,
                   steps |-> <<Ev("crc8", calcCrc), Ev("crcFail", At(buf, len - 1))>>]
             ELSE [ret |-> TRUE, wh65 |-> WH65Store(w, buf, len, t),
                   steps |-> <<Ev("crc8", calcCrc)>>
                             \o (IF At(buf, 0) # FamilyWH65
                                 THEN <<Ev("unknownFamily", At(buf, 0))>> ELSE <<>>)
                             \o <<Ev("store", len)>>]

\* decodeWH65 stamping lastUpdate also when the checksum fails
decodeWH65_StampOnReject(buf, len, w, t) ==
    IF len < MinFrameLen
    THEN [ret |-> FALSE, wh65 |-> w, steps |-> <<>>]
    ELSE LET calcCrc == crc8(buf, len - 1)
         IN  IF calcCrc # At(buf, len - 1)
             THEN [ret |-> FALSE, wh65 |-> [w EXCEPT !.lastUpdate = t],
                   steps |-> <<Ev("crc8", calcCrc), Ev("crcFail", At(buf, len - 1))>>]
             ELSE [ret |-> TRUE, wh65 |-> WH65Store(w, buf, len, t),
                   steps |-> <<Ev("crc8", calcCrc)>>
                             \o (IF At(buf, 0) # FamilyWH65
                                 THEN <<Ev("unknownFamily", At(buf, 0))>> ELSE <<>>)
                             \o <<Ev("store", len)>>]

\* decodeWH65 comparing only the low seven bits of the checksum
decodeWH65_MaskedCompare(buf, len, w, t) ==
    IF len < MinFrameLen
    THEN [ret |-> FALSE, wh65 |-> w, steps |-> <<>>]
    ELSE LET calcCrc == crc8(buf, len - 1)
         IN  IF And8(calcCrc, 127) # And8(At(buf, len - 1), 127)
             THEN [ret |-> FALSE, wh65 |-> w,
                   steps |-> <<Ev("crc8", calcCrc), Ev("crcFail", At(buf, len - 1))>>]
             ELSE [ret |-> TRUE, wh65 |-> WH65Store(w, buf, len, t),
                   steps |-> <<Ev("crc8", calcCrc)>>
                             \o (IF At(buf, 0) # FamilyWH65
                                 THEN <<Ev("unknownFamily", At(buf, 0))>> ELSE <<>>)
                             \o <<Ev("store", len)>>]

\* decodeWH65 returning false for a family byte other than 0x24
decodeWH65_RejectUnknownFamily(buf, len, w, t) ==
    IF len < MinFrameLen
    THEN [ret |-> FALSE, wh65 |-> w, steps |-> <<>>]
    ELSE LET calcCrc == crc8(buf, len - 1)
         IN  IF calcCrc # At(buf, len - 1)
             THEN [ret |-> FALSE, wh65 |-> w,
                   steps |-> <<Ev("crc8", calcCrc), Ev("crcFail", At(buf, len - 1))>>]
             ELSE IF At(buf, 0) # FamilyWH65
             THEN [ret |-> FALSE, wh65 |-> w,
                   steps |-> <<Ev("crc8", calcCrc), Ev("unknownFamily", At(buf, 0))>>]
             ELSE [ret |-> TRUE, wh65 |-> WH65Store(w, buf, len, t),
                   steps |-> <<Ev("crc8", calcCrc), Ev("store", len)>>]

\* decodeWH65(buf, len) run on the stored reading w at time t: the return
\* value, the stored reading afterwards and the steps taken
decodeWH65(buf, len, w, t) ==
    IF len < MinFrameLen
    THEN [ret |-> FALSE, wh65 |-> w, steps |-> <<>>]
    ELSE LET calcCrc == crc8(buf, len - 1)
         IN  IF calcCrc # At(buf, len - 1)
             THEN [ret |-> FALSE, wh65 |-> w,
                   steps |-> <<Ev("crc8", calcCrc), Ev("crcFail", At(buf, len - 1))>>]
             ELSE [ret |-> TRUE, wh65 |-> WH65Store(w, buf, len, t),
                   steps |-> <<Ev("crc8", calcCrc)>>
                             \o (IF At(buf, 0) # FamilyWH65
                                 THEN <<Ev("unknownFamily", At(buf, 0))>> ELSE <<>>)
                             \o <<Ev("store", len)>>]

\* ------------------------------------------------------------------------
\* CC1101 driver: cc1101Init, cc1101StartRX, cc1101CheckRX
\* ------------------------------------------------------------------------
CC1101_SRES == 48

CC1101_SRX == 52

CC1101_SIDLE == 54

CC1101_SFRX == 58

IOCFG2Reset == 41

MaxPacket == 80

SettleDelayMs == 10

\* delay(1) + delay(1) + delay(40) + delay(10)
InitDelayMs == 1 + 1 + 40 + 10

OverflowBit == 128

\* the register writes of cc1101Init, in order, as <<address, value>>
InitRegs(f2, f1, f0) ==
    << <<0, 1>>, <<2, 6>>, <<3, 71>>, <<4, 45>>, <<5, 212>>, <<6, 80>>,
       <<7, 0>>, <<8, 0>>, <<9, 0>>, <<10, 0>>, <<11, 6>>, <<12, 0>>,
       <<13, f2>>, <<14, f1>>, <<15, f0>>,
       <<16, 136>>, <<17, 75>>, <<18, 2>>, <<19, 2>>, <<20, 248>>,
       <<21, 68>>, <<22, 7>>, <<23, 0>>, <<24, 24>>, <<25, 22>>, <<26, 108>>,
       <<27, 3>>, <<28, 64>>, <<29, 145>>, <<33, 86>>, <<34, 16>>,
       <<35, 233>>, <<36, 42>>, <<37, 0>>, <<38, 31>>,
       <<44, 129>>, <<45, 53>>, <<46, 9>> >>

\* cc1101Init configuring the chip before it looks at IOCFG2
cc1101Init_WriteBeforeCheck(ver, freq) ==
    LET head == <<Ev("strobe", CC1101_SRES), Ev("readReg", ver)>>
        regs == IF freq = 868 THEN InitRegs(33, 98, 118) ELSE InitRegs(35, 49, 59)
        wr == head \o [i \in 1..Len(regs) |-> Ev("writeReg", regs[i][1] * 256 + regs[i][2])]
    IN  IF ver # IOCFG2Reset
        THEN [ret |-> FALSE, steps |-> wr]
        ELSE [ret |-> TRUE,
              steps |-> wr \o <<Ev("strobe", CC1101_SFRX), Ev("strobe", CC1101_SRX)>>]

\* cc1101Init() when the read of IOCFG2 returns ver and cfg.freq is freq
cc1101Init(ver, freq) ==
    LET head == <<Ev("strobe", CC1101_SRES), Ev("readReg", ver)>>
        regs == IF freq = 868 THEN InitRegs(33, 98, 118) ELSE InitRegs(35, 49, 59)
    IN  IF ver # IOCFG2Reset
        THEN [ret |-> FALSE, steps |-> head]
        ELSE [ret |-> TRUE,
              steps |-> head
                        \o [i \in 1..Len(regs) |-> Ev("writeReg", regs[i][1] * 256 + regs[i][2])]
                        \o <<Ev("strobe", CC1101_SFRX), Ev("strobe", CC1101_SRX)>>]

cc1101StartRX ==
    <<Ev("strobe", CC1101_SIDLE), Ev("strobe", CC1101_SFRX), Ev("strobe", CC1101_SRX)>>

\* cc1101CheckRX without the re-arm in the overflow branches
cc1101CheckRX_NoRearmOnOverflow(rx1, rx2, fifo, w, t) ==
    LET s1 == <<Ev("status", rx1)>>
    IN  IF And8(rx1, OverflowBit) # 0
        THEN [wh65 |-> w, buf |-> <<>>, now |-> t, steps |-> s1]
        ELSE IF rx1 = 0
        THEN [wh65 |-> w, buf |-> <<>>, now |-> t, steps |-> s1]
        ELSE LET t2 == t + SettleDelayMs
                 s2 == s1 \o <<Ev("delay", SettleDelayMs), Ev("status", rx2)>>
             IN  IF rx2 = 0 \/ And8(rx2, OverflowBit) # 0
                 THEN [wh65 |-> w, buf |-> <<>>, now |-> t2, steps |-> s2]
                 ELSE LET rxBytes == IF rx2 > MaxPacket THEN MaxPacket ELSE rx2
                          buf == SubSeq(fifo, 1, rxBytes)
                          d == decodeWH65(buf, rxBytes, w, t2)
                      IN  [wh65 |-> d.wh65, buf |-> buf, now |-> t2,
                           steps |-> s2
                                     \o <<Ev("burst", rxBytes), Ev("decode", rxBytes)>>
                                     \o d.steps
                                     \o (IF d.ret THEN <<Ev("led", 0)>> ELSE <<>>)
                                     \o cc1101StartRX]

\* cc1101CheckRX re-arming only inside the branch of an accepted packet
cc1101CheckRX_RearmOnAccept(rx1, rx2, fifo, w, t) ==
    LET s1 == <<Ev("status", rx1)>>
    IN  IF And8(rx1, OverflowBit) # 0
        THEN [wh65 |-> w, buf |-> <<>>, now |-> t, steps |-> s1 \o cc1101StartRX]
        ELSE IF rx1 = 0
        THEN [wh65 |-> w, buf |-> <<>>, now |-> t, steps |-> s1]
        ELSE LET t2 == t + SettleDelayMs
                 s2 == s1 \o <<Ev("delay", SettleDelayMs), Ev("status", rx2)>>
             IN  IF rx2 = 0 \/ And8(rx2, OverflowBit) # 0
                 THEN [wh65 |-> w, buf |-> <<>>, now |-> t2,
                       steps |-> s2 \o cc1101StartRX]
                 ELSE LET rxBytes == IF rx2 > MaxPacket THEN MaxPacket ELSE rx2
                          buf == SubSeq(fifo, 1, rxBytes)
                          d == decodeWH65(buf, rxBytes, w, t2)
                      IN  [wh65 |-> d.wh65, buf |-> buf, now |-> t2,
                           steps |-> s2
                                     \o <<Ev("burst", rxBytes), Ev("decode", rxBytes)>>
                                     \o d.steps
                                     \o (IF d.ret THEN <<Ev("led", 0)>> \o cc1101StartRX
                                         ELSE <<>>)]

\* cc1101CheckRX re-arming also when RXBYTES reads 0
cc1101CheckRX_RearmOnIdle(rx1, rx2, fifo, w, t) ==
    LET s1 == <<Ev("status", rx1)>>
    IN  IF And8(rx1, OverflowBit) # 0
        THEN [wh65 |-> w, buf |-> <<>>, now |-> t, steps |-> s1 \o cc1101StartRX]
        ELSE IF rx1 = 0
        THEN [wh65 |-> w, buf |-> <<>>, now |-> t, steps |-> s1 \o cc1101StartRX]
        ELSE LET t2 == t + SettleDelayMs
                 s2 == s1 \o <<Ev("delay", SettleDelayMs), Ev("status", rx2)>>
             IN  IF rx2 = 0 \/ And8(rx2, OverflowBit) # 0
                 THEN [wh65 |-> w, buf |-> <<>>, now |-> t2,
                       steps |-> s2 \o cc1101StartRX]
                 ELSE LET rxBytes == IF rx2 > MaxPacket THEN MaxPacket ELSE rx2
                          buf == SubSeq(fifo, 1, rxBytes)
                          d == decodeWH65(buf, rxBytes, w, t2)
                      IN  [wh65 |-> d.wh65, buf |-> buf, now |-> t2,
                           steps |-> s2
                                     \o <<Ev("burst", rxBytes), Ev("decode", rxBytes)>>
                                     \o d.steps
                                     \o (IF d.ret THEN <<Ev("led", 0)>> ELSE <<>>)
                                     \o cc1101StartRX]

\* cc1101CheckRX capping the read at the 64 bytes of the chip's FIFO
cc1101CheckRX_Cap64(rx1, rx2, fifo, w, t) ==
    LET s1 == <<Ev("status", rx1)>>
    IN  IF And8(rx1, OverflowBit) # 0
        THEN [wh65 |-> w, buf |-> <<>>, now |-> t, steps |-> s1 \o cc1101StartRX]
        ELSE IF rx1 = 0
        THEN [wh65 |-> w, buf |-> <<>>, now |-> t, steps |-> s1]
        ELSE LET t2 == t + SettleDelayMs
                 s2 == s1 \o <<Ev("delay", SettleDelayMs), Ev("status", rx2)>>
             IN  IF rx2 = 0 \/ And8(rx2, OverflowBit) # 0
                 THEN [wh65 |-> w, buf |-> <<>>, now |-> t2,
                       steps |-> s2 \o cc1101StartRX]
                 ELSE LET rxBytes == IF rx2 > 64 THEN 64 ELSE rx2
                          buf == SubSeq(fifo, 1, rxBytes)
                          d == decodeWH65(buf, rxBytes, w, t2)
                      IN  [wh65 |-> d.wh65, buf |-> buf, now |-> t2,
                           steps |-> s2
                                     \o <<Ev("burst", rxBytes), Ev("decode", rxBytes)>>
                                     \o d.steps
                                     \o (IF d.ret THEN <<Ev("led", 0)>> ELSE <<>>)
                                     \o cc1101StartRX]

\* cc1101CheckRX() when the first read of RXBYTES returns rx1, the read after
\* the delay returns rx2 and the FIFO holds the bytes fifo; w is the stored
\* reading and t is millis() on entry
cc1101CheckRX(rx1, rx2, fifo, w, t) ==
    LET s1 == <<Ev("status", rx1)>>
    IN  IF And8(rx1, OverflowBit) # 0
        THEN [wh65 |-> w, buf |-> <<>>, now |-> t, steps |-> s1 \o cc1101StartRX]
        ELSE IF rx1 = 0
        THEN [wh65 |-> w, buf |-> <<>>, now |-> t, steps |-> s1]
        ELSE LET t2 == t + SettleDelayMs
                 s2 == s1 \o <<Ev("delay", SettleDelayMs), Ev("status", rx2)>>
             IN  IF rx2 = 0 \/ And8(rx2, OverflowBit) # 0
                 THEN [wh65 |-> w, buf |-> <<>>, now |-> t2,
                       steps |-> s2 \o cc1101StartRX]
                 ELSE LET rxBytes == IF rx2 > MaxPacket THEN MaxPacket ELSE rx2
                          buf == SubSeq(fifo, 1, rxBytes)
                          d == decodeWH65(buf, rxBytes, w, t2)
                      IN  [wh65 |-> d.wh65, buf |-> buf, now |-> t2,
                           steps |-> s2
                                     \o <<Ev("burst", rxBytes), Ev("decode", rxBytes)>>
                                     \o d.steps
                                     \o (IF d.ret THEN <<Ev("led", 0)>> ELSE <<>>)
                                     \o cc1101StartRX]

\* ------------------------------------------------------------------------
\* PMS7003 reader: pmsRead
\* ------------------------------------------------------------------------
PmsFrameLen == 32

PmsHeader1 == 66

PmsHeader2 == 77

PMSZero ==
    [pm1_0 |-> 0, pm2_5 |-> 0, pm10 |-> 0, p03 |-> 0, p05 |-> 0, p10 |-> 0,
     p25 |-> 0, p50 |-> 0, p100 |-> 0, valid |-> FALSE, lastUpdate |-> 0]

PmsBufZero == [i \in 1..PmsFrameLen |-> 0]

\* ((uint16_t)pmsBuf[i] << 8) | pmsBuf[i + 1]
Be16(buf, i) == At(buf, i) * 256 + At(buf, i + 1)

\* uint16_t ckSum = sum of pmsBuf[0..29]
PmsCkSum(buf) == SeqSum(SubSeq(buf, 1, PmsFrameLen - 2)) % 65536

\* the nine fields of a valid frame
\* the mass fields taken from the first block of three (offsets 4, 6, 8)
PmsFields_FirstBlock(buf) ==
    [pm1_0 |-> Be16(buf, 4), pm2_5 |-> Be16(buf, 6), pm10 |-> Be16(buf, 8),
     p03 |-> Be16(buf, 16), p05 |-> Be16(buf, 18), p10 |-> Be16(buf, 20),
     p25 |-> Be16(buf, 22), p50 |-> Be16(buf, 24), p100 |-> Be16(buf, 26)]

PmsFields(buf) ==
    [pm1_0 |-> Be16(buf, 10), pm2_5 |-> Be16(buf, 12), pm10 |-> Be16(buf, 14),
     p03 |-> Be16(buf, 16), p05 |-> Be16(buf, 18), p10 |-> Be16(buf, 20),
     p25 |-> Be16(buf, 22), p50 |-> Be16(buf, 24), p100 |-> Be16(buf, 26)]

PmsStore(p, buf, t) ==
    LET f == PmsFields(buf)
    IN  [p EXCEPT !.pm1_0 = f.pm1_0, !.pm2_5 = f.pm2_5, !.pm10 = f.pm10,
                  !.p03 = f.p03, !.p05 = f.p05, !.p10 = f.p10,
                  !.p25 = f.p25, !.p50 = f.p50, !.p100 = f.p100,
                  !.valid = TRUE, !.lastUpdate = t]

\* the loop body storing whatever byte comes at cursor 1
PmsByte_AcceptAnySecond(st, c, t) ==
    IF st.ret THEN st
    ELSE LET rd == [st EXCEPT !.used = st.used + 1]
         IN  IF st.idx = 0 /\ c # PmsHeader1 THEN rd
             ELSE LET buf == [st.buf EXCEPT ![st.idx + 1] = c]
                      idx == st.idx + 1
                  IN  IF idx # PmsFrameLen
                      THEN [rd EXCEPT !.buf = buf, !.idx = idx]
                      ELSE IF PmsCkSum(buf) # Be16(buf, PmsFrameLen - 2)
                      THEN [rd EXCEPT !.buf = buf, !.idx = 0,
                                      !.fails = st.fails + 1, !.ret = TRUE]
                      ELSE [rd EXCEPT !.buf = buf, !.idx = 0,
                                      !.pms = PmsStore(st.pms, buf, t),
                                      !.stored = Append(st.stored, PmsFields(buf))]

\* the loop body keeping a 0x42 that comes at cursor 1 as a new first byte
PmsByte_KeepHeaderAtOne(st, c, t) ==
    IF st.ret THEN st
    ELSE LET rd == [st EXCEPT !.used = st.used + 1]
         IN  IF st.idx = 0 /\ c # PmsHeader1 THEN rd
             ELSE IF st.idx = 1 /\ c = PmsHeader1 THEN rd
             ELSE IF st.idx = 1 /\ c # PmsHeader2 THEN [rd EXCEPT !.idx = 0]
             ELSE LET buf == [st.buf EXCEPT ![st.idx + 1] = c]
                      idx == st.idx + 1
                  IN  IF idx # PmsFrameLen
                      THEN [rd EXCEPT !.buf = buf, !.idx = idx]
                      ELSE IF PmsCkSum(buf) # Be16(buf, PmsFrameLen - 2)
                      THEN [rd EXCEPT !.buf = buf, !.idx = 0,
                                      !.fails = st.fails + 1, !.ret = TRUE]
                      ELSE [rd EXCEPT !.buf = buf, !.idx = 0,
                                      !.pms = PmsStore(st.pms, buf, t),
                                      !.stored = Append(st.stored, PmsFields(buf))]

\* the loop body with the fields stored before the checksum is compared
PmsByte_StoreBeforeCheck(st, c, t) ==
    IF st.ret THEN st
    ELSE LET rd == [st EXCEPT !.used = st.used + 1]
         IN  IF st.idx = 0 /\ c # PmsHeader1 THEN rd
             ELSE IF st.idx = 1 /\ c # PmsHeader2 THEN [rd EXCEPT !.idx = 0]
             ELSE LET buf == [st.buf EXCEPT ![st.idx + 1] = c]
                      idx == st.idx + 1
                  IN  IF idx # PmsFrameLen
                      THEN [rd EXCEPT !.buf = buf, !.idx = idx]
                      ELSE IF PmsCkSum(buf) # Be16(buf, PmsFrameLen - 2)
                      THEN [rd EXCEPT !.buf = buf, !.idx = 0,
                                      !.pms = PmsStore(st.pms, buf, t),
                                      !.fails = st.fails + 1, !.ret = TRUE]
                      ELSE [rd EXCEPT !.buf = buf, !.idx = 0,
                                      !.pms = PmsStore(st.pms, buf, t),
                                      !.stored = Append(st.stored, PmsFields(buf))]

\* the loop body clearing pms.valid when the checksum fails
PmsByte_InvalidateOnFail(st, c, t) ==
    IF st.ret THEN st
    ELSE LET rd == [st EXCEPT !.used = st.used + 1]
         IN  IF st.idx = 0 /\ c # PmsHeader1 THEN rd
             ELSE IF st.idx = 1 /\ c # PmsHeader2 THEN [rd EXCEPT !.idx = 0]
             ELSE LET buf == [st.buf EXCEPT ![st.idx + 1] = c]
                      idx == st.idx + 1
                  IN  IF idx # PmsFrameLen
                      THEN [rd EXCEPT !.buf = buf, !.idx = idx]
                      ELSE IF PmsCkSum(buf) # Be16(buf, PmsFrameLen - 2)
                      THEN [rd EXCEPT !.buf = buf, !.idx = 0,
                                      !.pms = [st.pms EXCEPT !.valid = FALSE],
                                      !.fails = st.fails + 1, !.ret = TRUE]
                      ELSE [rd EXCEPT !.buf = buf, !.idx = 0,
                                      !.pms = PmsStore(st.pms, buf, t),
                                      !.stored = Append(st.stored, PmsFields(buf))]

\* one pass through the body of the while loop of pmsRead() with c the byte
\* read, at millis() = t.  st = [idx, buf, pms, stored, fails, used, ret]:
\* used counts the bytes read from pmsSerial, ret is set by the `return` of
\* the checksum failure, after which nothing more is read
PmsByte(st, c, t) ==
    IF st.ret THEN st
    ELSE LET rd == [st EXCEPT !.used = st.used + 1]
         IN  IF st.idx = 0 /\ c # PmsHeader1 THEN rd
             ELSE IF st.idx = 1 /\ c # PmsHeader2 THEN [rd EXCEPT !.idx = 0]
             ELSE LET buf == [st.buf EXCEPT ![st.idx + 1] = c]
                      idx == st.idx + 1
                  IN  IF idx # PmsFrameLen
                      THEN [rd EXCEPT !.buf = buf, !.idx = idx]
                      ELSE IF PmsCkSum(buf) # Be16(buf, PmsFrameLen - 2)
                      THEN [rd EXCEPT !.buf = buf, !.idx = 0,
                                      !.fails = st.fails + 1, !.ret = TRUE]
                      ELSE [rd EXCEPT !.buf = buf, !.idx = 0,
                                      !.pms = PmsStore(st.pms, buf, t),
                                      !.stored = Append(st.stored, PmsFields(buf))]

\* the while loop over the available bytes u[lo..hi], in order (the index
\* range is halved to keep the evaluation shallow)
RECURSIVE PmsLoop(_, _, _, _, _)
PmsLoop(st, u, lo, hi, t) ==
    IF lo > hi THEN st
    ELSE IF lo = hi THEN PmsByte(st, u[lo], t)
    ELSE LET mid == (lo + hi) \div 2
             left == PmsLoop(st, u, lo, mid, t)
         IN  IF left.ret THEN left ELSE PmsLoop(left, u, mid + 1, hi, t)

\* pmsRead with the cursor a local that starts at 0 on every call
pmsRead_LocalCursor(u, idx, buf, p, t) ==
    LET r == PmsLoop([idx |-> 0, buf |-> buf, pms |-> p, stored |-> <<>>,
                      fails |-> 0, used |-> 0, ret |-> FALSE], u, 1, Len(u), t)
    IN  [uart |-> SubSeq(u, r.used + 1, Len(u)), idx |-> r.idx, buf |-> r.buf,
         pms |-> r.pms, stored |-> r.stored, fails |-> r.fails]

\* pmsRead() with the bytes u available, cursor idx, accumulator buf and
\* stored reading p
pmsRead(u, idx, buf, p, t) ==
    LET r == PmsLoop([idx |-> idx, buf |-> buf, pms |-> p, stored |-> <<>>,
                      fails |-> 0, used |-> 0, ret |-> FALSE], u, 1, Len(u), t)
    IN  [uart |-> SubSeq(u, r.used + 1, Len(u)), idx |-> r.idx, buf |-> r.buf,
         pms |-> r.pms, stored |-> r.stored, fails |-> r.fails]

\* ------------------------------------------------------------------------
\* The transmitter's checksum: the remainder of M(x) * x^8 divided by
\* x^8 + x^5 + x^4 + 1 over GF(2), M(x) being the message bits, first byte
\* and most significant bit first.  This is what a WH65 puts in the last
\* byte of a packet; it is written independently of crc8 above.
\* ------------------------------------------------------------------------
Pow2(k) == CASE k = 0 -> 1 [] k = 1 -> 2 [] k = 2 -> 4 [] k = 3 -> 8
             [] k = 4 -> 16 [] k = 5 -> 32 [] k = 6 -> 64 [] k = 7 -> 128

\* bit k (0 = first) of the message followed by eight zero bits
MsgBit(bytes, k) ==
    IF k >= 8 * Len(bytes) THEN 0
    ELSE (bytes[(k \div 8) + 1] \div Pow2(7 - (k % 8))) % 2

\* long division over the bits lo..hi, rem the remainder so far
RECURSIVE PolyDiv(_, _, _, _)
PolyDiv(bytes, lo, hi, rem) ==
    IF lo > hi THEN rem
    ELSE IF lo = hi
    THEN LET r == 2 * rem + MsgBit(bytes, lo)
         IN  IF r >= 256 THEN Xor8(r - 256, CrcPoly) ELSE r
    ELSE LET mid == (lo + hi) \div 2
             left == PolyDiv(bytes, lo, mid, rem)
         IN  IF left \in Byte THEN PolyDiv(bytes, mid + 1, hi, left) ELSE left

PolyRem(bytes) == PolyDiv(bytes, 0, 8 * Len(bytes) + 7, 0)

\* ------------------------------------------------------------------------
\* Inputs: what the radio and the PMS7003 can deliver
\* ------------------------------------------------------------------------
MaxNow == 72

\* payloads: a 20-byte head (bytes 0..19 of the packet layout) and a filler
\* rule for the bytes after it
Scenario(id0, id1, id2) ==
    [head |-> <<36, id0, id1, id2, 0, 1, 148, 50, 0, 45, 10, 20, 0, 0, 100, 5, 0, 0, 1, 44>>,
     mul |-> 0, add |-> 0]

ZeroBase == [head |-> [i \in 1..20 |-> 0], mul |-> 0, add |-> 0]

StormBase ==
    [head |-> <<37, 18, 52, 86, 244, 250, 146, 99, 1, 144, 255, 128, 1, 2, 3, 11, 0, 1, 226, 64>>,
     mul |-> 37, add |-> 11]

CalmBase ==
    [head |-> <<36, 171, 205, 239, 0, 2, 138, 100, 1, 104, 0, 7, 0, 16, 0, 0, 16, 32, 48, 64>>,
     mul |-> 101, add |-> 3]

\* the first n bytes of the payload of base
Payload(base, n) ==
    [i \in 1..n |-> IF i <= Len(base.head) THEN base.head[i]
                    ELSE (base.mul * i + base.add) % 256]

\* an n-byte buffer (n >= 1): n - 1 payload bytes, then the transmitter's
\* checksum of them, or that checksum with its low bit flipped
Frame(base, n, good) ==
    LET pl == <<>> \o Payload(base, n - 1)
        c == PolyRem(pl)
    IN  Append(pl, IF good THEN c ELSE Xor8(c, 1))

RxBases == {Scenario(161, 178, 195), StormBase}

RxLens == {16, 17, 20, 21}

\* short and minimal buffers of both payloads, and full 80-byte FIFO reads
RxBuffers ==
    {Frame(b, n, g) : b \in RxBases, n \in RxLens, g \in BOOLEAN}
      \cup {Frame(StormBase, n, g) : n \in {1, 2, MaxPacket - 1, MaxPacket}, g \in BOOLEAN}

\* values the RXBYTES status register is read as
RxOverflow == {128, 145, 255}

RxPending == {1}

\* counts read from RXBYTES: the lengths above, and 127 (more than a packet)
RxCounts == RxLens \cup {127}

\* PMS7003 frames: header, 28 bytes of data, checksum (good or low bit flipped)
PmsData(mul, add) == [i \in 1..28 |-> (mul * i + add) % 256]

PmsFrame(data, good) ==
    LET b == <<PmsHeader1, PmsHeader2>> \o data
        ck == SeqSum(b) % 65536
    IN  b \o <<ck \div 256, IF good THEN ck % 256 ELSE Xor8(ck % 256, 1)>>

PmsA == PmsFrame(PmsData(7, 1), TRUE)

PmsB == PmsFrame(PmsData(13, 200), TRUE)

PmsBad == PmsFrame(PmsData(29, 5), FALSE)

\* a valid frame whose data contains the header pair 0x42 0x4D
PmsEcho == PmsFrame([i \in 1..28 |-> IF i = 9 THEN PmsHeader1
                                     ELSE IF i = 10 THEN PmsHeader2 ELSE i], TRUE)

\* ------------------------------------------------------------------------
\* State machine
\* ------------------------------------------------------------------------
InitWith(stream) ==
    /\ pc = "setup"
    /\ cfgFreq = 915
    /\ now = 0
    /\ wh65 = WH65Zero
    /\ pms = PMSZero
    /\ pmsBuf = PmsBufZero
    /\ pmsIdx = 0
    /\ uart = <<>>
    /\ wire = stream
    /\ trace = <<>>
    /\ rxBuf = <<>>
    /\ lastGood = <<>>
    /\ pmsLog = <<>>
    /\ sent = <<>>

\* setup(): cc1101Init() with the chip answering ver
Setup(ver) ==
    /\ pc = "setup"
    /\ LET r == cc1101Init(ver, cfgFreq)
       IN  trace' = r.steps \o (IF r.ret THEN <<>> ELSE <<Ev("initFailed", ver)>>)
    /\ now' = now + InitDelayMs
    /\ pc' = "checkRX"
    /\ UNCHANGED <<cfgFreq, wh65, pms, pmsBuf, pmsIdx, uart, wire, rxBuf,
                   lastGood, pmsLog, sent>>

\* a buffer that is at least 17 bytes long and whose last byte is the
\* checksum of the bytes before it
GoodFrame(buf) ==
    /\ Len(buf) >= MinFrameLen
    /\ PolyRem(SubSeq(buf, 1, Len(buf) - 1)) = buf[Len(buf)]

\* the radio inputs that are such buffers
RxGood == {b \in RxBuffers : GoodFrame(b)}

\* loop(): cc1101CheckRX()
CheckRX(rx1, rx2, fifo) ==
    /\ pc = "checkRX"
    /\ LET r == cc1101CheckRX(rx1, rx2, fifo, wh65, now)
       IN  /\ r.now <= MaxNow
           /\ wh65' = r.wh65
           /\ now' = r.now
           /\ trace' = r.steps
           /\ rxBuf' = r.buf
           /\ lastGood' = IF r.buf \in RxGood THEN r.buf ELSE lastGood
    /\ pc' = "pmsRead"
    /\ UNCHANGED <<cfgFreq, pms, pmsBuf, pmsIdx, uart, wire, pmsLog, sent>>

\* loop(): pmsRead()
PmsRead ==
    /\ pc = "pmsRead"
    /\ LET r == pmsRead(uart, pmsIdx, pmsBuf, pms, now)
       IN  /\ uart' = r.uart
           /\ pmsIdx' = r.idx
           /\ pmsBuf' = r.buf
           /\ pms' = r.pms
           /\ pmsLog' = pmsLog \o r.stored
           /\ trace' = <<Ev("pmsStored", Len(r.stored)), Ev("pmsFail", r.fails)>>
    /\ rxBuf' = <<>>
    /\ pc' = "checkRX"
    /\ UNCHANGED <<cfgFreq, now, wh65, wire, lastGood, sent>>

\* the UART receives the next k bytes from the sensor
UartArrive(k) ==
    /\ k >= 1
    /\ k <= Len(wire)
    /\ uart' = uart \o SubSeq(wire, 1, k)
    /\ sent' = sent \o SubSeq(wire, 1, k)
    /\ wire' = SubSeq(wire, k + 1, Len(wire))
    /\ UNCHANGED <<pc, cfgFreq, now, wh65, pms, pmsBuf, pmsIdx, trace, rxBuf,
                   lastGood, pmsLog>>

\* the polling cycle: any radio input, the UART delivering half frames or more
Init == InitWith(PmsA \o PmsBad \o PmsB)

\* RXBYTES reads 0: nothing pending
PollIdle == CheckRX(0, 0, <<>>)

\* RXBYTES reads with the overflow flag set, whatever the count bits
PollOverflow == \E rx1 \in RxOverflow : CheckRX(rx1, 0, <<>>)

\* bytes pending, but after the delay RXBYTES reads 0 or overflow
PollLate == \E rx1 \in RxPending, rx2 \in {0} \cup RxOverflow : CheckRX(rx1, rx2, <<>>)

\* bytes pending before and after the delay: the FIFO is read
PollPacket ==
    /\ pc = "checkRX"
    /\ \E rx1 \in RxPending, rx2 \in RxCounts :
        \E fifo \in {b \in RxBuffers : Len(b) = (IF rx2 > MaxPacket THEN MaxPacket ELSE rx2)} :
            CheckRX(rx1, rx2, fifo)

Boot == \E ver \in {IOCFG2Reset, 0, 255} : Setup(ver)

Arrive == \E k \in {PmsFrameLen, 2 * PmsFrameLen} : UartArrive(k)

Next == Boot \/ PollIdle \/ PollOverflow \/ PollLate \/ PollPacket \/ PmsRead \/ Arrive

Spec == Init /\ [][Next]_vars

\* ------------------------------------------------------------------------
\* The decoder on its own: decodeWH65 called once on a drawn buffer
\* ------------------------------------------------------------------------
\* a valid reading stored before the call: the storm frame, 20 bytes
PriorBuf == Frame(StormBase, LuxFrameLen, TRUE)

PriorTime == InitDelayMs + SettleDelayMs

InitDecodeWith(inputs) ==
    /\ pc = "decode"
    /\ cfgFreq = 915
    /\ now = PriorTime + SettleDelayMs
    /\ rxBuf \in inputs
    /\ \/ wh65 = WH65Zero /\ lastGood = <<>>
       \/ wh65 = WH65Store(WH65Zero, PriorBuf, Len(PriorBuf), PriorTime) /\ lastGood = PriorBuf
    /\ pms = PMSZero
    /\ pmsBuf = PmsBufZero
    /\ pmsIdx = 0
    /\ uart = <<>>
    /\ wire = <<>>
    /\ trace = <<>>
    /\ pmsLog = <<>>
    /\ sent = <<>>

\* decodeWH65(rxBuf, Len(rxBuf))
DecodeCall ==
    /\ pc = "decode"
    /\ LET r == decodeWH65(rxBuf, Len(rxBuf), wh65, now)
       IN  /\ wh65' = r.wh65
           /\ trace' = Append(r.steps, Ev("return", IF r.ret THEN 1 ELSE 0))
    /\ lastGood' = IF GoodFrame(rxBuf) THEN rxBuf ELSE lastGood
    /\ pc' = "decoded"
    /\ UNCHANGED <<cfgFreq, now, pms, pmsBuf, pmsIdx, uart, wire, rxBuf, pmsLog, sent>>

\* buffers of every length 0..80: three payloads, checksum good or bad
DecodeBases == {ZeroBase, StormBase, CalmBase}

DecodeInputs ==
    {<<>>} \cup {Frame(b, n, g) : b \in DecodeBases, n \in 1..MaxPacket, g \in BOOLEAN}

\* the scenario buffer of the specification: 20 listed bytes and their CRC
IdBytes == {0, 1, 127, 128, 255}

ScenarioLen == Len(Scenario(0, 0, 0).head) + 1

ScenarioInputs ==
    {Frame(Scenario(a, b, c), ScenarioLen, TRUE) : a \in IdBytes, b \in IdBytes, c \in IdBytes}

InitDecode == InitDecodeWith(DecodeInputs \cup ScenarioInputs)

NextDecode == DecodeCall

SpecDecode == InitDecode /\ [][NextDecode]_vars

\* ------------------------------------------------------------------------
\* setup() with any chip answer and frequency setting
\* ------------------------------------------------------------------------
\* cfg.freq as loaded from the preferences: the two offered, and another
FreqChoices == {868, 915, 433}

InitBoot ==
    /\ pc = "setup"
    /\ cfgFreq \in FreqChoices
    /\ now = 0
    /\ wh65 = WH65Zero
    /\ pms = PMSZero
    /\ pmsBuf = PmsBufZero
    /\ pmsIdx = 0
    /\ uart = <<>>
    /\ wire = <<>>
    /\ trace = <<>>
    /\ rxBuf = <<>>
    /\ lastGood = <<>>
    /\ pmsLog = <<>>
    /\ sent = <<>>

BootAny == \E ver \in Byte : Setup(ver)

NextBoot == BootAny

SpecBoot == InitBoot /\ [][NextBoot]_vars

\* ------------------------------------------------------------------------
\* The radio poll with any pair of RXBYTES reads
\* ------------------------------------------------------------------------
PollFirst == {0, 1, MaxPacket, 127} \cup RxOverflow

PollSecond == {0, 1, 2, 16, 17, MaxPacket - 1, MaxPacket, MaxPacket + 1, 127, 128, 255}

InitPoll ==
    /\ pc = "checkRX"
    /\ cfgFreq = 915
    /\ now = PriorTime
    /\ \/ wh65 = WH65Zero /\ lastGood = <<>>
       \/ wh65 = WH65Store(WH65Zero, PriorBuf, Len(PriorBuf), PriorTime) /\ lastGood = PriorBuf
    /\ pms = PMSZero
    /\ pmsBuf = PmsBufZero
    /\ pmsIdx = 0
    /\ uart = <<>>
    /\ wire = <<>>
    /\ trace = <<>>
    /\ rxBuf = <<>>
    /\ pmsLog = <<>>
    /\ sent = <<>>

\* one poll: the first read, the read after the delay, the FIFO contents
PollAny ==
    /\ pc = "checkRX"
    /\ \E rx1 \in PollFirst, rx2 \in PollSecond :
        \E fifo \in {b \in RxBuffers :
                       Len(b) = (IF rx2 = 0 \/ rx2 >= OverflowBit THEN MinFrameLen
                                 ELSE IF rx2 > MaxPacket THEN MaxPacket ELSE rx2)} :
            CheckRX(rx1, rx2, fifo)

NextPoll == PollAny \/ PmsRead

SpecPoll == InitPoll /\ [][NextPoll]_vars

\* ------------------------------------------------------------------------
\* The decoder on buffers with chosen field bytes
\* ------------------------------------------------------------------------
\* the payload base with its bytes i and i + 1 (counted from 0) set to a, b
WithBytes(base, i, a, b) ==
    [base EXCEPT !.head = [base.head EXCEPT ![i + 1] = a, ![i + 2] = b]]

\* bytes 8-9: directions 0, 104, 105, 255, 256, 360, 361, 511 and up to 65535
WindInputs ==
    {Frame(WithBytes(CalmBase, 8, hi, lo), LuxFrameLen + 1, TRUE) :
        hi \in {0, 1, 2, 255}, lo \in {0, 104, 105, 255}}

\* bytes 5-6: every upper nibble pattern with raw 0, 400, 650 and 4095 among
\* the 12-bit values
TempInputs ==
    {Frame(WithBytes(StormBase, 5, hi, lo), MinFrameLen, TRUE) :
        hi \in {0, 1, 2, 15, 18, 240, 241, 255}, lo \in {0, 138, 144, 255}}

\* byte 0: the WH65 family code and others, at the lengths 17, 20 and 21
FamilyBytes == {0, 35, FamilyWH65, 37, 128, 255}

FamilyLens == {MinFrameLen, LuxFrameLen, LuxFrameLen + 1}

FamilyInputs ==
    {Frame(WithBytes(b, 0, f, b.head[2]), n, TRUE) :
        b \in {StormBase, CalmBase}, f \in FamilyBytes, n \in FamilyLens}

\* lengths 17..22 around the illuminance threshold, bytes 16..19 zero or not
LuxInputs ==
    {Frame(b, n, TRUE) :
        b \in {StormBase, CalmBase, ZeroBase, WithBytes(StormBase, 16, 255, 255)},
        n \in MinFrameLen..(LuxFrameLen + 2)}

\* byte 7: humidity bytes up to and beyond 100 (byte 8 as in the base)
HumidityInputs ==
    {Frame(WithBytes(CalmBase, 7, h, CalmBase.head[9]), MinFrameLen, TRUE) :
        h \in {0, 1, 99, 100, 101, 128, 255}}

\* byte 4: each single bit, none, all, and all but bit 2
BatteryInputs ==
    {Frame(WithBytes(b, 4, f, b.head[6]), MinFrameLen, TRUE) :
        b \in {StormBase, CalmBase}, f \in {0, 1, 2, 4, 8, 16, 32, 64, 128, 251, 255}}

FieldInputs ==
    WindInputs \cup TempInputs \cup FamilyInputs \cup LuxInputs
      \cup HumidityInputs \cup BatteryInputs

InitFields == InitDecodeWith(FieldInputs)

NextFields == DecodeCall

SpecFields == InitFields /\ [][NextFields]_vars

\* stored readings a decode may start from
FieldPriors ==
    { WH65Zero,
      WH65Store(WH65Zero, PriorBuf, Len(PriorBuf), PriorTime),
      WH65Store(WH65Zero, Frame(WithBytes(CalmBase, 16, 255, 255), LuxFrameLen + 1, TRUE),
                LuxFrameLen + 1, 1) }

\* one byte of a decoded buffer replaced, and the result decoded again
CorruptCall(i, v) ==
    /\ pc = "decoded"
    /\ i \in 1..Len(rxBuf)
    /\ v # rxBuf[i]
    /\ LET buf == [rxBuf EXCEPT ![i] = v]
           r == decodeWH65(buf, Len(buf), wh65, now)
       IN  /\ rxBuf' = buf
           /\ wh65' = r.wh65
           /\ trace' = Append(r.steps, Ev("return", IF r.ret THEN 1 ELSE 0))
    /\ pc' = "redecoded"
    /\ UNCHANGED <<cfgFreq, now, pms, pmsBuf, pmsIdx, uart, wire, lastGood, pmsLog, sent>>

CorruptLen == 40

CorruptInputs ==
    {Frame(StormBase, CorruptLen, TRUE), Frame(CalmBase, MinFrameLen, TRUE),
     Frame(Scenario(161, 178, 195), ScenarioLen, TRUE)}

InitCorrupt == InitDecodeWith(CorruptInputs)

Corrupt ==
    /\ pc = "decoded"
    /\ \E i \in 1..Len(rxBuf), v \in Byte : CorruptCall(i, v)

NextCorrupt == DecodeCall \/ Corrupt

SpecCorrupt == InitCorrupt /\ [][NextCorrupt]_vars

\* ------------------------------------------------------------------------
\* The assembler under every batching of the UART, the radio silent
\* ------------------------------------------------------------------------
PmsStreams ==
    { PmsBad \o PmsA,
      PmsA \o PmsBad \o PmsB,
      <<0, PmsHeader1, 0>> \o PmsEcho \o <<PmsHeader1>> }

InitPms == \E stream \in PmsStreams : InitWith(stream)

BootOk == Setup(IOCFG2Reset)

\* arrivals add up in the UART until pmsRead runs, so every batching of the
\* stream is a run of arrivals of 1..MaxChunk bytes between two reads
MaxChunk == 3

ArriveAny == \E k \in 1..MaxChunk : UartArrive(k)

NextPms == BootOk \/ PollIdle \/ PmsRead \/ ArriveAny

SpecPms == InitPms /\ [][NextPms]_vars

\* ------------------------------------------------------------------------
\* The assembler on single frames, and on streams with stray header bytes
\* ------------------------------------------------------------------------
\* the frame of data with bit k of its low checksum byte flipped
PmsFrameFlip(data, k) ==
    LET f == PmsFrame(data, TRUE)
    IN  [f EXCEPT ![PmsFrameLen] = Xor8(f[PmsFrameLen], Pow2(k))]

FrameData ==
    { PmsData(7, 1), PmsData(13, 200), PmsData(0, 255),
      [i \in 1..28 |-> IF i = 9 THEN PmsHeader1 ELSE IF i = 10 THEN PmsHeader2 ELSE i] }

FrameStreams ==
    {PmsFrame(d, TRUE) : d \in FrameData}
      \cup {PmsFrameFlip(d, k) : d \in FrameData, k \in 0..7}

InitFrame == \E stream \in FrameStreams : InitWith(stream)

ArrivePart == \E k \in {10, PmsFrameLen - 10, PmsFrameLen} : UartArrive(k)

NextFrame == BootOk \/ PollIdle \/ PmsRead \/ ArrivePart

SpecFrame == InitFrame /\ [][NextFrame]_vars

\* streams with a 0x42 right behind a 0x42, and with 0x4D and 0xFF where a
\* header byte is due
HeaderStreams ==
    { <<PmsHeader1, PmsHeader1, PmsHeader2>> \o PmsEcho,
      <<PmsHeader2, PmsHeader1, 255, PmsHeader1>> \o PmsA }

InitHeader == \E stream \in HeaderStreams : InitWith(stream)

NextHeader == BootOk \/ PollIdle \/ PmsRead \/ ArriveAny

SpecHeader == InitHeader /\ [][NextHeader]_vars

\* ------------------------------------------------------------------------
\* The assembler joining an endless stream of identical frames at any byte
\* ------------------------------------------------------------------------
\* the sequence s started k elements later and wrapped around
Rotate(s, k) == SubSeq(s, k + 1, Len(s)) \o SubSeq(s, 1, k)

SyncFrames == {PmsA, PmsEcho}

\* the sensor is already transmitting when the reader starts: wire holds one
\* period of the stream, from the byte that comes next
InitSync ==
    /\ pc = "checkRX"
    /\ cfgFreq = 915
    /\ now = InitDelayMs
    /\ wh65 = WH65Zero
    /\ pms = PMSZero
    /\ pmsBuf = PmsBufZero
    /\ pmsIdx = 0
    /\ uart = <<>>
    /\ \E f \in SyncFrames, k \in 0..(PmsFrameLen - 1) : wire = Rotate(f, k)
    /\ trace = <<>>
    /\ rxBuf = <<>>
    /\ lastGood = <<>>
    /\ pmsLog = <<>>
    /\ sent = <<>>

\* the next k bytes of the endless stream reach the drained UART (at 9600
\* baud loop() meets a byte or two at a time); the stream is followed until
\* a reading has been stored (sent is not kept here)
UartArriveCyclic(k) ==
    /\ pmsLog = <<>>
    /\ uart = <<>>
    /\ uart' = SubSeq(wire, 1, k)
    /\ wire' = Rotate(wire, k)
    /\ UNCHANGED <<pc, cfgFreq, now, wh65, pms, pmsBuf, pmsIdx, trace, rxBuf,
                   lastGood, pmsLog, sent>>

ArriveCyclic == \E k \in {1, 2} : UartArriveCyclic(k)

NextSync == PollIdle \/ PmsRead \/ ArriveCyclic

\* loop() runs for ever and never blocks, and the sensor keeps transmitting
SpecSync ==
    /\ InitSync
    /\ [][NextSync]_vars
    /\ WF_vars(PollIdle)
    /\ WF_vars(PmsRead)
    /\ WF_vars(ArriveCyclic)

\* ------------------------------------------------------------------------
\* decodeWH65 on a FIFO read that holds more than one frame: a frame with a
\* good checksum, then further bytes, at most 80 in all
\* ------------------------------------------------------------------------
TailFrames ==
    {Frame(StormBase, MinFrameLen, TRUE), Frame(CalmBase, LuxFrameLen + 1, TRUE),
     Frame(StormBase, CorruptLen, TRUE)}

\* the bytes a tail carries before its last byte
TailData ==
    {<<>>, <<1>>, <<128>>, <<255>>, <<0, 0>>, <<66, 77>>,
     <<>> \o Payload(StormBase, 5), <<>> \o Payload(CalmBase, MinFrameLen - 1),
     <<>> \o Payload(StormBase, 30)}

\* tails after the frame f: runs of 0x00 (up to the 80-byte cap), and the
\* data above followed by their checksum or by that checksum with one bit
\* flipped
TailsOf(f) ==
    {[i \in 1..k |-> 0] : k \in (1..8) \cup {MaxPacket - Len(f)}}
      \cup {Append(t, PolyRem(t)) : t \in TailData}
      \cup {Append(t, Xor8(PolyRem(t), m)) : t \in TailData, m \in {1, 128}}

TailInputs == UNION {{f \o x : x \in TailsOf(f)} : f \in TailFrames}

InitTail == InitDecodeWith(TailInputs)

NextTail == DecodeCall

SpecTail == InitTail /\ [][NextTail]_vars

\* ------------------------------------------------------------------------
\* Properties
\* ------------------------------------------------------------------------
\* the fields of a stored weather reading other than the timestamp
WeatherFields(w) ==
    <<w.battery, w.tempC, w.humidity, w.windDir, w.windSpeed, w.windGust,
      w.rainMM, w.uvIndex, w.lux, w.valid>>

\* the fields of a stored particulate reading other than the timestamp
ParticulateFields(p) ==
    <<p.pm1_0, p.pm2_5, p.pm10, p.p03, p.p05, p.p10, p.p25, p.p50, p.p100, p.valid>>

\* the poll read RXBYTES with the overflow flag set
OverflowSeen(tr) ==
    \E i \in 1..Len(tr) : tr[i].op = "status" /\ tr[i].arg >= OverflowBit

\* the last three steps are the strobes idle, flush, enter-receive
ReArmed(tr) ==
    /\ Len(tr) >= 3
    /\ tr[Len(tr) - 2] = Ev("strobe", CC1101_SIDLE)
    /\ tr[Len(tr) - 1] = Ev("strobe", CC1101_SFRX)
    /\ tr[Len(tr)] = Ev("strobe", CC1101_SRX)

\* C1: the stored weather reading is valid only if a buffer of at least 17
\* bytes with a matching checksum was decoded before, its fields are the ones
\* extracted from the most recent such buffer, and as long as there was none
\* the reading is untouched.
C1_ValidOnlyFromGoodFrame ==
    /\ lastGood = <<>> => wh65 = WH65Zero
    /\ wh65.valid => /\ lastGood # <<>>
                     /\ GoodFrame(lastGood)
                     /\ wh65 = WH65Store(WH65Zero, lastGood, Len(lastGood), wh65.lastUpdate)
    /\ lastGood # <<>> => wh65.valid

\* a checksum-failed buffer of full length was polled after a valid reading
\* had been stored from an earlier buffer
C1_Witness ==
    /\ wh65.valid
    /\ Len(rxBuf) >= MinFrameLen
    /\ rxBuf # lastGood
    /\ HasOp(trace, "crcFail")

\* C2: a poll that reads RXBYTES with the overflow flag set, on the first
\* read or on the re-read, re-arms the chip, does no burst read, does not call
\* the decoder and leaves the stored weather reading unchanged.
C2_OverflowRearmsOnly ==
    [][(pc = "checkRX" /\ OverflowSeen(trace'))
         => /\ ReArmed(trace')
            /\ ~HasOp(trace', "burst")
            /\ ~HasOp(trace', "decode")
            /\ wh65' = wh65
            /\ rxBuf' = <<>>]_vars

\* overflow with count bits set, seen on the re-read, with a reading stored
C2_Witness ==
    /\ wh65.valid
    /\ Len(trace) >= 3
    /\ trace[3] = Ev("status", 145)
    /\ ReArmed(trace)

\* C3: a poll that burst-read the FIFO or saw an overflow ends with the
\* strobes idle, flush, enter-receive, after the burst read and the decoder
\* call, whether the decoder accepted or not; it reads RXBYTES no more after
\* the burst read.
C3_RearmAfterEveryRead ==
    (HasOp(trace, "burst") \/ OverflowSeen(trace))
      => /\ ReArmed(trace)
         /\ \A i \in 1..Len(trace) :
               trace[i].op = "burst"
                 => /\ i < Len(trace) - 2
                    /\ \A j \in (i + 1)..Len(trace) : trace[j].op # "status"
         /\ \A i \in 1..(Len(trace) - 3) : trace[i].op # "strobe"

\* a burst read whose bytes the decoder rejected, followed by the re-arm
C3_Witness ==
    /\ HasOp(trace, "burst")
    /\ HasOp(trace, "crcFail")
    /\ ReArmed(trace)

\* the bytes of the stream that pmsRead() has taken out of the UART so far
Consumed == SubSeq(sent, 1, Len(sent) - Len(uart))

\* the 32 bytes of the stream c that follow its first o bytes
FrameAt(c, o) == SubSeq(c, o + 1, o + PmsFrameLen)

\* the two header bytes open the 32 bytes f
HeaderOk(f) == f[1] = PmsHeader1 /\ f[2] = PmsHeader2

\* the 16-bit sum of the first 30 bytes of f is its big-endian trailer
SumOk(f) ==
    SeqSum(SubSeq(f, 1, PmsFrameLen - 2)) % 65536
      = f[PmsFrameLen - 1] * 256 + f[PmsFrameLen]

\* the stream c is a run of whole frames up to offset o, so that the frame
\* assembler is at cursor 0 when the byte at offset o comes
Aligned(c, o) ==
    /\ o % PmsFrameLen = 0
    /\ \A j \in 0..((o \div PmsFrameLen) - 1) : HeaderOk(FrameAt(c, j * PmsFrameLen))

\* the offsets below o of the whole frames of c whose checksum is right
ValidBefore(c, o) ==
    {q \in 0..(o - 1) : q % PmsFrameLen = 0 /\ SumOk(FrameAt(c, q))}

\* the stored reading is the one of the last valid frame of c below offset o,
\* or the initial one when there is none
ShowsLastBefore(c, o) ==
    LET qs == ValidBefore(c, o)
    IN  IF qs = {} THEN pms = PMSZero
        ELSE LET q == CHOOSE x \in qs : \A y \in qs : y <= x
             IN  pms = PmsStore(PMSZero, FrameAt(c, q), pms.lastUpdate)

\* pmsRead() called once per byte of s[lo..hi], from the assembler state st
RECURSIVE FeedSingly(_, _, _, _, _)
FeedSingly(st, s, lo, hi, t) ==
    IF lo > hi THEN st
    ELSE IF lo = hi
    THEN LET r == pmsRead(<<s[lo]>>, st.idx, st.buf, st.pms, t)
         IN  [idx |-> r.idx, buf |-> r.buf, pms |-> r.pms,
              stored |-> st.stored \o r.stored]
    ELSE LET mid == (lo + hi) \div 2
             left == FeedSingly(st, s, lo, mid, t)
         IN  IF left.idx >= 0 THEN FeedSingly(left, s, mid + 1, hi, t) ELSE left

\* C4: once every byte that arrived has been consumed by pmsRead() calls, the
\* sequence of stored particulate readings, the stored reading (timestamp
\* aside) and the cursor are the ones that feeding the same bytes one per call
\* gives, however the bytes were batched.
C4_SplitIndependent ==
    uart = <<>>
      => LET ref == FeedSingly([idx |-> 0, buf |-> PmsBufZero, pms |-> PMSZero,
                                stored |-> <<>>], sent, 1, Len(sent), now)
         IN  /\ pmsLog = ref.stored
             /\ ParticulateFields(pms) = ParticulateFields(ref.pms)
             /\ pmsIdx = ref.idx
             /\ pmsBuf = ref.buf

\* the whole three-frame stream is consumed and the last call started in the
\* middle of a frame: it took fewer than 32 bytes and completed a frame
C4_Witness ==
    /\ wire = <<>>
    /\ uart = <<>>
    /\ Len(sent) = 3 * PmsFrameLen
    /\ Len(pmsLog) = 2
    /\ pc = "checkRX"
    /\ trace = <<Ev("pmsStored", 1), Ev("pmsFail", 0)>>
    /\ pmsIdx = 0

\* C5: when a 32-byte frame with both header bytes and a wrong checksum has
\* just been completed, the cursor is 0 and the stored reading is still the
\* one from before the frame; when the 32 bytes right after it are a valid
\* frame and have been consumed, that frame's reading has been stored.
C5_BadFrameDropped ==
    LET c == Consumed
    IN  \A o \in 0..(Len(c) - PmsFrameLen) :
          (Aligned(c, o) /\ HeaderOk(FrameAt(c, o)) /\ ~SumOk(FrameAt(c, o)))
            => /\ Len(c) = o + PmsFrameLen
                   => /\ pmsIdx = 0
                      /\ ShowsLastBefore(c, o)
                      /\ Len(pmsLog) = Cardinality(ValidBefore(c, o))
               /\ (/\ Len(c) >= o + 2 * PmsFrameLen
                   /\ HeaderOk(FrameAt(c, o + PmsFrameLen))
                   /\ SumOk(FrameAt(c, o + PmsFrameLen)))
                   => LET k == Cardinality(ValidBefore(c, o)) + 1
                      IN  /\ Len(pmsLog) >= k
                          /\ pmsLog[k] = PmsFields(FrameAt(c, o + PmsFrameLen))
                          /\ Len(c) = o + 2 * PmsFrameLen
                               => /\ pmsIdx = 0
                                  /\ ShowsLastBefore(c, o + 2 * PmsFrameLen)

\* a reading was stored, then a frame with a wrong checksum was dropped, then
\* the frame right behind it was stored as the second reading
C5_Witness ==
    /\ Len(Consumed) = 3 * PmsFrameLen
    /\ ~SumOk(FrameAt(Consumed, PmsFrameLen))
    /\ HeaderOk(FrameAt(Consumed, PmsFrameLen))
    /\ Len(pmsLog) = 2
    /\ pmsLog[1] # pmsLog[2]
    /\ pms = PmsStore(PMSZero, FrameAt(Consumed, 2 * PmsFrameLen), pms.lastUpdate)

\* a whole frame with header and right checksum lies in the stream c and ends
\* behind its first n bytes
ValidFrameEndsAfter(c, n) ==
    \E o \in 0..(Len(c) - PmsFrameLen) :
        /\ o + PmsFrameLen > n
        /\ HeaderOk(FrameAt(c, o))
        /\ SumOk(FrameAt(c, o))

\* C6: over the polling cycles a valid stored reading of either kind stays
\* valid; the weather reading changes only in a radio poll that read a buffer
\* with a matching checksum, and then to that buffer's fields; the particulate
\* reading changes only in a pmsRead() call that consumed the end of a frame
\* with a right checksum; the radio poll leaves the particulate state alone
\* and pmsRead() leaves the weather reading alone.
C6_ReadingsPersist ==
    [][/\ wh65.valid => wh65'.valid
       /\ pms.valid => pms'.valid
       /\ wh65' # wh65
            => /\ pc = "checkRX"
               /\ rxBuf' \in RxGood
               /\ wh65' = WH65Store(wh65, rxBuf', Len(rxBuf'), now')
       /\ pms' # pms
            => /\ pc = "pmsRead"
               /\ ValidFrameEndsAfter(Consumed', Len(Consumed))
               /\ pms'.valid
       /\ pc = "checkRX" => pms' = pms /\ pmsIdx' = pmsIdx /\ pmsBuf' = pmsBuf
       /\ pc = "pmsRead" => wh65' = wh65]_vars

\* both readings are valid, the particulate one from the first frame still
\* stands after a frame with a wrong checksum was consumed, and the weather
\* one still stands after a poll whose buffer failed the checksum
C6_Witness ==
    /\ wh65.valid
    /\ pms.valid
    /\ HasOp(trace, "crcFail")
    /\ Len(Consumed) = 2 * PmsFrameLen
    /\ Len(pmsLog) = 1
    /\ pms = PmsStore(PMSZero, FrameAt(Consumed, 0), pms.lastUpdate)
    /\ wh65 = WH65Store(WH65Zero, lastGood, Len(lastGood), wh65.lastUpdate)

\* the buffer b without its last byte
Front(b) == SubSeq(b, 1, Len(b) - 1)

\* the decoder call recorded in tr returned false without storing
Rejected(tr) ==
    /\ tr # <<>>
    /\ tr[Len(tr)] = Ev("return", 0)
    /\ ~HasOp(tr, "store")

\* the decoder call recorded in tr stored the fields and returned true
Accepted(tr) ==
    /\ tr # <<>>
    /\ tr[Len(tr)] = Ev("return", 1)
    /\ HasOp(tr, "store")

\* C7: decodeWH65 rejects a buffer shorter than 17 bytes without computing
\* or comparing a checksum, rejects a buffer of 17 bytes or more whose last
\* byte is not the checksum of the bytes before it, and in both cases leaves
\* every field of the stored weather reading, valid flag and timestamp
\* included, as it was.
C7_RejectLeavesReading ==
    [][pc = "decode"
         => /\ Len(rxBuf) < MinFrameLen
                => /\ trace' = <<Ev("return", 0)>>
                   /\ wh65' = wh65
            /\ (Len(rxBuf) >= MinFrameLen /\ PolyRem(Front(rxBuf)) # rxBuf[Len(rxBuf)])
                => /\ Rejected(trace')
                   /\ HasOp(trace', "crcFail")
                   /\ wh65' = wh65]_vars

\* a full-size buffer with a wrong checksum was rejected while a reading
\* stored from an earlier buffer is in place
C7_Witness ==
    /\ pc = "decoded"
    /\ Len(rxBuf) = MaxPacket
    /\ HasOp(trace, "crcFail")
    /\ Rejected(trace)
    /\ wh65.valid
    /\ wh65.lastUpdate = PriorTime
    /\ lastGood = PriorBuf

\* C8: for a buffer of 17 to 80 bytes, crc8 over all bytes but the last is
\* the remainder of their bit string, most significant bit first and followed
\* by eight zero bits, divided by x^8 + x^5 + x^4 + 1 from a zero register;
\* when the last byte is that value, decodeWH65 accepts the buffer and stores
\* its fields.
C8_CrcRoundTrip ==
    (pc = "decoded" /\ Len(rxBuf) >= MinFrameLen)
      => LET b == Front(rxBuf)
             c == crc8(b, Len(b))
         IN  /\ c \in Byte
             /\ c = PolyRem(b)
             /\ c = rxBuf[Len(rxBuf)]
                  => /\ Accepted(trace)
                     /\ trace[1] = Ev("crc8", c)
                     /\ wh65.valid
                     /\ lastGood = rxBuf

\* a buffer of 79 bytes followed by their checksum was accepted
C8_Witness ==
    /\ pc = "decoded"
    /\ Len(rxBuf) = MaxPacket
    /\ crc8(Front(rxBuf), MaxPacket - 1) = rxBuf[MaxPacket]
    /\ Accepted(trace)
    /\ wh65.valid

\* the positions where the buffers a and b of equal length differ
DiffAt(a, b) == {i \in 1..Len(a) : a[i] # b[i]}

\* C9: a buffer that decodeWH65 accepted is rejected, with the stored reading
\* left as the accepted buffer set it, once any single byte of it, payload or
\* checksum, is replaced by a different value and the length kept.
C9_SingleByteChangeRejected ==
    /\ pc = "decoded" => Accepted(trace) /\ lastGood = rxBuf
    /\ pc = "redecoded"
         => /\ Len(rxBuf) = Len(lastGood)
            /\ Cardinality(DiffAt(rxBuf, lastGood)) = 1
            /\ Rejected(trace)
            /\ HasOp(trace, "crcFail")
            /\ wh65 = WH65Store(WH65Zero, lastGood, Len(lastGood), wh65.lastUpdate)

\* a payload byte of an accepted 40-byte buffer had only its top bit changed
\* and the buffer was rejected
C9_Witness ==
    /\ pc = "redecoded"
    /\ Len(rxBuf) = CorruptLen
    /\ \E i \in 1..(CorruptLen - 1) :
          DiffAt(rxBuf, lastGood) = {i} /\ rxBuf[i] = (lastGood[i] + 128) % 256
    /\ Rejected(trace)

\* C10 as stated: the scenario buffer is accepted for every choice of the
\* three id bytes and decodes to temperature 0.0 degrees C.
C10_Original ==
    (pc = "decoded" /\ rxBuf \in ScenarioInputs)
      => Accepted(trace) /\ wh65.tempC = 0

\* C10: the scenario buffer, the 20 listed bytes followed by their checksum
\* and so 21 bytes long, is accepted for every choice of the three id bytes;
\* its bytes 5 and 6 are 0x01 0x94, raw 404, so it decodes to temperature
\* 0.4 degrees C (tempC is held in tenths of a degree).
C10_ScenarioDecodes ==
    (pc = "decoded" /\ rxBuf \in ScenarioInputs)
      => /\ Len(rxBuf) = LuxFrameLen + 1
         /\ Accepted(trace)
         /\ wh65.valid
         /\ TempRaw(rxBuf) = 404
         /\ wh65.tempC = 4

\* the scenario buffer with id bytes 0xFF 0x80 0x01 was decoded
C10_Witness ==
    /\ pc = "decoded"
    /\ rxBuf \in ScenarioInputs
    /\ rxBuf[2] = 255 /\ rxBuf[3] = 128 /\ rxBuf[4] = 1
    /\ Accepted(trace)

\* C11: for every accepted buffer, with d the 16-bit big-endian value of
\* bytes 8 and 9, the stored wind direction is d when d is in 0..360 and 0
\* when d is in 361..65535; the stored wind direction is at most 360 in every
\* state.
C11_WindDirClamped ==
    /\ wh65.windDir \in 0..MaxWindDir
    /\ (pc = "decoded" /\ Accepted(trace))
         => LET d == rxBuf[9] * 256 + rxBuf[10]
            IN  /\ d <= 360 => wh65.windDir = d
                /\ d >= 361 => wh65.windDir = 0

\* an accepted buffer whose bytes 8-9 are 0x01 0x69, 361, stored direction 0
C11_Witness ==
    /\ pc = "decoded"
    /\ Accepted(trace)
    /\ rxBuf[9] = 1 /\ rxBuf[10] = 105
    /\ wh65.windDir = 0
    /\ wh65.valid

\* C12: for every accepted buffer the stored temperature in tenths of a
\* degree is raw - 400 with raw = (byte5 mod 16) * 256 + byte6, whatever the
\* upper nibble of byte 5; raw 400 gives 0.0, raw 650 gives 25.0, and the
\* result is never below -40.0 degrees C.
C12_TemperatureFormula ==
    (pc = "decoded" /\ Accepted(trace))
      => LET raw == (rxBuf[6] % 16) * 256 + rxBuf[7]
         IN  /\ wh65.tempC = raw - 400
             /\ raw = 400 => wh65.tempC = 0
             /\ raw = 650 => wh65.tempC = 250
             /\ wh65.tempC >= -400
             /\ wh65.tempC <= 4095 - 400

\* an accepted buffer with byte 5 = 0xF1 and byte 6 = 0x90: the upper nibble
\* is set, raw is 400 and the stored temperature 0.0
C12_Witness ==
    /\ pc = "decoded"
    /\ Accepted(trace)
    /\ rxBuf[6] = 241 /\ rxBuf[7] = 144
    /\ wh65.tempC = 0

\* the decoded fields other than illuminance, valid flag included
FieldsButLux(w) ==
    <<w.battery, w.tempC, w.humidity, w.windDir, w.windSpeed, w.windGust,
      w.rainMM, w.uvIndex, w.valid>>

\* the buffer b with byte 0 set to f and the last byte the checksum of the
\* bytes before it
Refamily(b, f) ==
    LET pl == [Front(b) EXCEPT ![1] = f]
    IN  Append(pl, PolyRem(pl))

\* C13: a buffer of at least 17 bytes with a matching checksum is accepted
\* and stored whatever its byte 0; the same buffer with another byte 0 and
\* the checksum to match is accepted too and gives the same value for every
\* field, illuminance aside when the buffer is 20 bytes long and the
\* checksum is its byte 19.
C13_FamilyByteIgnored ==
    (pc = "decoded" /\ GoodFrame(rxBuf))
      => /\ Accepted(trace)
         /\ wh65.valid
         /\ HasOp(trace, "unknownFamily") <=> rxBuf[1] # 36
         /\ \A f \in FamilyBytes :
               LET r == decodeWH65(Refamily(rxBuf, f), Len(rxBuf), WH65Zero, now)
               IN  /\ r.ret
                   /\ FieldsButLux(r.wh65) = FieldsButLux(wh65)
                   /\ Len(rxBuf) # LuxFrameLen => r.wh65.lux = wh65.lux

\* a 20-byte buffer with byte 0 = 0xFF was accepted with the family warning
C13_Witness ==
    /\ pc = "decoded"
    /\ Len(rxBuf) = LuxFrameLen
    /\ rxBuf[1] = 255
    /\ Accepted(trace)
    /\ HasOp(trace, "unknownFamily")
    /\ wh65.valid

\* C14: a decode that accepts a buffer of 17, 18 or 19 bytes leaves the
\* stored illuminance 0, whatever it was before; one that accepts a buffer of
\* 20 bytes or more leaves it the 32-bit big-endian value of bytes 16..19.
C14_LuxByLength ==
    [][(pc = "decode" /\ Accepted(trace'))
         => /\ Len(rxBuf) \in 17..19 => wh65'.lux = <<0, 0>>
            /\ Len(rxBuf) >= 20
                 => wh65'.lux = <<rxBuf[17] * 256 + rxBuf[18], rxBuf[19] * 256 + rxBuf[20]>>]_vars

\* a 19-byte buffer with non-zero bytes 16 and 17 was accepted and the stored
\* illuminance is 0
C14_Witness ==
    /\ pc = "decoded"
    /\ Len(rxBuf) = 19
    /\ rxBuf[17] = 255 /\ rxBuf[18] = 255
    /\ Accepted(trace)
    /\ wh65.lux = <<0, 0>>

\* C15: the reading stored from an accepted buffer agrees, on every field but
\* the timestamp, with the reading the decoder stores from the same buffer
\* starting from any other stored reading.
C15_NoLeakFromPrevious ==
    (pc = "decoded" /\ Accepted(trace))
      => \A w \in FieldPriors :
            LET r == decodeWH65(rxBuf, Len(rxBuf), w, now)
            IN  r.ret /\ WeatherFields(r.wh65) = WeatherFields(wh65)

\* a 17-byte buffer was accepted and the stored reading is the buffer's own,
\* with illuminance 0 and the direction reset
C15_Witness ==
    /\ pc = "decoded"
    /\ Len(rxBuf) = MinFrameLen
    /\ Accepted(trace)
    /\ wh65 = WH65Store(WH65Zero, rxBuf, MinFrameLen, now)
    /\ wh65.lux = <<0, 0>>
    /\ wh65.windDir = 0
    /\ rxBuf[9] = 1 /\ rxBuf[10] = 144

\* the number of steps of the kind op in the trace tr
CountOp(tr, op) == Cardinality({i \in 1..Len(tr) : tr[i].op = op})

\* C16: a poll whose first read of RXBYTES is exactly 0 does nothing more:
\* no delay, no second read, no burst read, no strobe, no decoder call, and
\* the stored weather reading and the clock are as before.
C16_IdlePollDoesNothing ==
    [][(pc = "checkRX" /\ trace'[1] = Ev("status", 0))
         => /\ trace' = <<Ev("status", 0)>>
            /\ wh65' = wh65
            /\ now' = now
            /\ rxBuf' = <<>>
            /\ lastGood' = lastGood]_vars

\* an idle poll ran while a reading was stored and the chip had been re-armed
\* by the poll before
C16_Witness ==
    /\ pc = "pmsRead"
    /\ trace = <<Ev("status", 0)>>
    /\ wh65.valid
    /\ now > PriorTime

\* C17: a poll whose first read of RXBYTES is 1..127 waits 10 ms and reads
\* RXBYTES again; when that read is 1..127 it burst-reads min(count, 80)
\* bytes, a number in 1..80, and calls the decoder once, with exactly these
\* bytes and this length; when it is 0 or has the overflow flag nothing is
\* read or decoded.
C17_ReadLengthCapped ==
    [][(pc = "checkRX" /\ trace'[1].op = "status" /\ trace'[1].arg \in 1..127)
         => /\ Len(trace') >= 3
            /\ trace'[2] = Ev("delay", 10)
            /\ trace'[3].op = "status"
            /\ now' = now + 10
            /\ CountOp(trace', "status") = 2
            /\ LET c == trace'[3].arg
                   n == IF c < 80 THEN c ELSE 80
               IN  IF c = 0 \/ c >= 128
                   THEN /\ CountOp(trace', "burst") = 0
                        /\ CountOp(trace', "decode") = 0
                        /\ rxBuf' = <<>>
                        /\ wh65' = wh65
                   ELSE /\ n \in 1..80
                        /\ trace'[4] = Ev("burst", n)
                        /\ trace'[5] = Ev("decode", n)
                        /\ CountOp(trace', "burst") = 1
                        /\ CountOp(trace', "decode") = 1
                        /\ Len(rxBuf') = n
                        /\ wh65' = decodeWH65(rxBuf', n, wh65, now').wh65]_vars

\* the second read was 127 and 80 bytes were read and decoded
C17_Witness ==
    /\ pc = "pmsRead"
    /\ Len(trace) >= 5
    /\ trace[3] = Ev("status", 127)
    /\ trace[4] = Ev("burst", 80)
    /\ trace[5] = Ev("decode", 80)
    /\ Len(rxBuf) = 80

\* C18: cc1101Init fails exactly when IOCFG2 reads other than 0x29 after the
\* reset; a failed init has written no register and strobed neither flush
\* nor enter-receive; a successful one has made all its register writes, the
\* frequency bytes by cfg.freq among them, before the closing strobes flush,
\* enter-receive.
C18_InitFailsOnAbsentChip ==
    pc = "checkRX"
      => LET n == Len(trace)
             failed == HasOp(trace, "initFailed")
         IN  /\ n >= 3
             /\ trace[1] = Ev("strobe", CC1101_SRES)
             /\ trace[2].op = "readReg"
             /\ failed <=> trace[2].arg # 41
             /\ now = 52
             /\ failed
                  => /\ n = 3
                     /\ ~HasOp(trace, "writeReg")
                     /\ CountOp(trace, "strobe") = 1
             /\ ~failed
                  => /\ trace[n - 1] = Ev("strobe", CC1101_SFRX)
                     /\ trace[n] = Ev("strobe", CC1101_SRX)
                     /\ CountOp(trace, "strobe") = 3
                     /\ CountOp(trace, "writeReg") = 38
                     /\ \A i \in 3..(n - 2) : trace[i].op = "writeReg"
                     /\ trace[15] = Ev("writeReg", 13 * 256 + (IF cfgFreq = 868 THEN 33 ELSE 35))
                     /\ trace[16] = Ev("writeReg", 14 * 256 + (IF cfgFreq = 868 THEN 98 ELSE 49))
                     /\ trace[17] = Ev("writeReg", 15 * 256 + (IF cfgFreq = 868 THEN 118 ELSE 59))

\* IOCFG2 read as 0x28: the init failed after the reset strobe and the read
C18_Witness ==
    /\ pc = "checkRX"
    /\ trace = <<Ev("strobe", CC1101_SRES), Ev("readReg", 40), Ev("initFailed", 40)>>
    /\ cfgFreq = 868

\* C19: with the assembler at cursor 0, a frame 0x42, 0x4D, 28 data bytes
\* and two checksum bytes that are, big-endian, the sum of the first 30 bytes
\* stores a valid reading whose three mass values are the big-endian 16-bit
\* values at offsets 10, 12, 14 and whose six counts are those at offsets
\* 16, 18, 20, 22, 24, 26; a frame whose low checksum byte differs from that
\* sum in one bit stores nothing.
C19_FrameFieldsAtOffsets ==
    LET f == sent
    IN  /\ Len(Consumed) < 32 => pms = PMSZero /\ pmsLog = <<>>
        /\ Len(Consumed) = 32
             => /\ pmsIdx = 0
                /\ f[1] = 66 /\ f[2] = 77
                /\ IF f[31] * 256 + f[32] = SeqSum(SubSeq(f, 1, 30))
                   THEN /\ pms.valid
                        /\ Len(pmsLog) = 1
                        /\ pms.pm1_0 = f[11] * 256 + f[12]
                        /\ pms.pm2_5 = f[13] * 256 + f[14]
                        /\ pms.pm10 = f[15] * 256 + f[16]
                        /\ pms.p03 = f[17] * 256 + f[18]
                        /\ pms.p05 = f[19] * 256 + f[20]
                        /\ pms.p10 = f[21] * 256 + f[22]
                        /\ pms.p25 = f[23] * 256 + f[24]
                        /\ pms.p50 = f[25] * 256 + f[26]
                        /\ pms.p100 = f[27] * 256 + f[28]
                   ELSE pms = PMSZero /\ pmsLog = <<>>

\* a frame whose low checksum byte has only its top bit wrong was consumed
\* whole and nothing was stored
C19_Witness ==
    /\ Len(Consumed) = 32
    /\ sent[31] * 256 + ((sent[32] + 128) % 256) = SeqSum(SubSeq(sent, 1, 30))
    /\ pms = PMSZero
    /\ pmsIdx = 0
    /\ trace = <<Ev("pmsStored", 0), Ev("pmsFail", 1)>>

\* C20: in a pmsRead() call that consumes one byte c: at cursor 0 a c other
\* than 0x42 leaves cursor and accumulator as they are; at cursor 1 a c other
\* than 0x4D, 0x42 included, sets the cursor to 0 and is not stored; at
\* cursor 2..31 every c is stored at the cursor, which moves on by one (to 0
\* from 31); the header bytes in place are stored like that too.
C20_HeaderBytes ==
    [][(pc = "pmsRead" /\ pc' = "checkRX" /\ Len(uart) = 1)
         => LET c == uart[1]
                appended == /\ pmsBuf' = [pmsBuf EXCEPT ![pmsIdx + 1] = c]
                            /\ pmsIdx' = (pmsIdx + 1) % 32
            IN  /\ uart' = <<>>
                /\ (pmsIdx = 0 /\ c # 66) => (pmsIdx' = 0 /\ pmsBuf' = pmsBuf)
                /\ (pmsIdx = 1 /\ c # 77) => (pmsIdx' = 0 /\ pmsBuf' = pmsBuf)
                /\ (pmsIdx = 0 /\ c = 66) => appended
                /\ (pmsIdx = 1 /\ c = 77) => appended
                /\ pmsIdx \in 2..31 => appended]_vars

\* 0x42 came at cursor 1: the cursor is back at 0, and the 0x4D behind it
\* was then dropped at cursor 0
C20_Witness ==
    /\ Consumed = <<66, 66, 77>>
    /\ uart = <<>>
    /\ pmsIdx = 0
    /\ pmsBuf[1] = 66
    /\ pmsBuf[2] = 0

\* C21: the humidity of every stored weather reading is within 0..100.
C21_HumidityInRange ==
    wh65.humidity \in 0..100

\* an accepted 17-byte buffer with byte 7 = 101, and the value stored
C21_Witness ==
    /\ pc = "decoded"
    /\ Accepted(trace)
    /\ rxBuf[8] = 101
    /\ wh65.valid
    /\ wh65.humidity = 101

\* C22: for every accepted buffer the stored battery flag is 1 when bit 2
\* (mask 0x04) of byte 4 is clear and 0 when it is set, whatever the other
\* bits of byte 4 are.
C22_BatteryBit ==
    (pc = "decoded" /\ Accepted(trace))
      => LET bit2 == (rxBuf[5] \div 4) % 2
         IN  /\ bit2 = 0 => wh65.battery = 1
             /\ bit2 = 1 => wh65.battery = 0

\* an accepted buffer with byte 4 = 0xFB, every bit but bit 2: battery OK
C22_Witness ==
    /\ pc = "decoded"
    /\ Accepted(trace)
    /\ rxBuf[5] = 251
    /\ wh65.battery = 1

\* C23: whatever byte of an endless run of back-to-back checksum-valid
\* frames the assembler meets first, it eventually stores a particulate
\* reading.
C23_EventuallyStores ==
    <>(pmsLog # <<>>)

\* 32 bytes that began at the 0x42 0x4D inside a frame's data were dropped
\* for their checksum, nothing is stored, and the stream is again at that
\* same 0x42 0x4D, not at a frame start
C23_Witness ==
    /\ pmsLog = <<>>
    /\ pmsIdx = 0
    /\ uart = <<>>
    /\ trace = <<Ev("pmsStored", 0), Ev("pmsFail", 1)>>
    /\ wire[1] = 66 /\ wire[2] = 77
    /\ pmsBuf[1] = 66 /\ pmsBuf[2] = 77
    /\ wire = Rotate(PmsEcho, 10)
    /\ pmsBuf = wire

\* C24: after every step the cursor is in 0..31 and the accumulator has its
\* 32 bytes; with the cursor at 1 or more the accumulator's byte 0 is 0x42,
\* at 2 or more its byte 1 is 0x4D; a pmsRead() call that met a frame with
\* a wrong checksum, one that consumed the single byte at cursor 31, and one
\* that ended at the end of a run of whole frames each leave the cursor 0.
C24_CursorInRange ==
    [][/\ pmsIdx' \in 0..31
       /\ Len(pmsBuf') = 32
       /\ pmsIdx' >= 1 => pmsBuf'[1] = 66
       /\ pmsIdx' >= 2 => pmsBuf'[2] = 77
       /\ (pc = "pmsRead" /\ pc' = "checkRX")
            => /\ trace'[2].arg >= 1 => pmsIdx' = 0
               /\ (Len(uart) = 1 /\ pmsIdx = 31)
                    => /\ pmsIdx' = 0
                       /\ trace'[1].arg + trace'[2].arg = 1
               /\ Aligned(Consumed', Len(Consumed')) => pmsIdx' = 0]_vars

\* the cursor at 31 behind the two header bytes, one frame stored before
C24_Witness ==
    /\ pmsIdx = 31
    /\ pmsBuf[1] = 66
    /\ pmsBuf[2] = 77
    /\ Len(pmsLog) = 1
    /\ uart = <<>>

\* C25: a buffer of 17 to 80 bytes that are all 0x00 passes the checksum
\* comparison and is stored as a valid reading: temperature -40.0 C,
\* humidity 0, wind direction, speed and gust 0, rain 0, battery OK.
C25_AllZeroAccepted ==
    (/\ pc = "decoded"
     /\ Len(rxBuf) \in MinFrameLen..MaxPacket
     /\ \A i \in 1..Len(rxBuf) : rxBuf[i] = 0)
      => /\ Accepted(trace)
         /\ wh65.valid
         /\ wh65.lastUpdate = now
         /\ wh65.tempC = -400
         /\ wh65.humidity = 0
         /\ wh65.windDir = 0
         /\ wh65.windSpeed = 0
         /\ wh65.windGust = 0
         /\ wh65.rainMM = 0
         /\ wh65.battery = 1

\* the full 80-byte all-zero FIFO read stored over an earlier reading
C25_Witness ==
    /\ pc = "decoded"
    /\ Len(rxBuf) = MaxPacket
    /\ \A i \in 1..Len(rxBuf) : rxBuf[i] = 0
    /\ lastGood = rxBuf
    /\ wh65.valid
    /\ wh65.tempC = -400
    /\ wh65.lastUpdate = now

\* C26: no stored field of an accepted buffer is computed from the buffer's
\* last (checksum) byte: the fields stored for an accepted buffer are the
\* fields the assignments store for the same buffer with any other last
\* byte.
C26_NoFieldFromChecksum ==
    (pc = "decoded" /\ Accepted(trace))
      => \A c \in Byte :
           WeatherFields(WH65Store(wh65, [rxBuf EXCEPT ![Len(rxBuf)] = c],
                                   Len(rxBuf), now))
             = WeatherFields(wh65)

\* an accepted 20-byte buffer whose non-zero checksum byte is the low byte
\* of the stored illuminance
C26_Witness ==
    /\ pc = "decoded"
    /\ Accepted(trace)
    /\ Len(rxBuf) = LuxFrameLen
    /\ rxBuf[LuxFrameLen] = crc8(rxBuf, LuxFrameLen - 1)
    /\ rxBuf[LuxFrameLen] # 0
    /\ wh65.lux[2] % 256 = rxBuf[LuxFrameLen]

\* C27: the checksum is compared with the last byte of the whole buffer:
\* a buffer of at most 80 bytes that begins with a checksum-valid frame f
\* (at any split where the bytes before it are such a frame) and goes on
\* with k >= 1 further bytes x is accepted exactly when crc8 of x without
\* its last byte is the last byte of x, and is rejected otherwise.
C27_TailDecides ==
    (pc = "decoded" /\ Len(rxBuf) <= MaxPacket)
      => \A n \in MinFrameLen..(Len(rxBuf) - 1) :
           GoodFrame(SubSeq(rxBuf, 1, n))
             => LET x == SubSeq(rxBuf, n + 1, Len(rxBuf))
                    c == PolyRem(Front(x))
                IN  /\ crc8(Front(x), Len(x) - 1) = c
                    /\ c = x[Len(x)] => Accepted(trace)
                    /\ c # x[Len(x)] => Rejected(trace)

\* a 17-byte frame followed by six bytes that are not all zero and end in
\* their own checksum: accepted, the fields taken from the frame's bytes
C27_Witness ==
    /\ pc = "decoded"
    /\ Len(rxBuf) = MinFrameLen + 6
    /\ GoodFrame(SubSeq(rxBuf, 1, MinFrameLen))
    /\ rxBuf[MinFrameLen + 1] # 0
    /\ Accepted(trace)
    /\ wh65.humidity = rxBuf[8]

====
